---- MODULE Spec2Model ----
(***************************************************************************)
(* Event-collection pipeline: the ingestion lambda (event-collector) that  *)
(* normalizes one request into one record of the keyed store, and the      *)
(* hourly archiver (s3-archiver) that scans the store for the previous     *)
(* hour, groups the records by site and writes one object per site.        *)
(*                                                                         *)
(* Representation.  A Python string is a sequence of one-character         *)
(* strings, so that replace(), lower() and the ISO-8601 conversions work   *)
(* on characters.  A JSON / store value is a record with one field per     *)
(* Python type (t is the type tag); a dict is a function from key names    *)
(* to values whose DOMAIN is the set of keys present (a dict whose keys    *)
(* come from the data, such as eventTypes, is the list of its <<key,       *)
(* value>> pairs in insertion order, in field l).  Instants are            *)
(* integer epoch-milliseconds; the modelled instants lie in January 1970,  *)
(* which keeps every millisecond count inside TLC's integers.              *)
(***************************************************************************)
EXTENDS Integers, Sequences, FiniteSets, TLC

VARIABLES
    clock,          \* current instant, epoch-milliseconds (whole seconds)
    table,          \* the keyed store: <<domain_session, timestamp>> -> item
    invocations,    \* ingestion invocations so far (source of uuid4 / aws_request_id)
    request,        \* the last ingestion request
    response,       \* the last ingestion response
    putCalls,       \* put_item calls that the last ingestion invocation completed
    pc,             \* archiver position: "idle", "scan", "group", "archive"
    run,            \* the archival run in progress, or else the last one
    s3,             \* cold storage: object key -> object
    prev            \* what the archival run before `run` did

vars == <<clock, table, invocations, request, response, putCalls, pc, run, s3, prev>>

ingestVars == <<table, invocations, request, response, putCalls>>
archiveVars == <<pc, run, s3, prev>>

(***************************************************************************)
(* Values                                                                  *)
(***************************************************************************)
NoDict == <<>>

Str(s) == [t |-> "str", s |-> s, n |-> 0, d |-> NoDict, l |-> <<>>]
Num(n) == [t |-> "num", s |-> <<>>, n |-> n, d |-> NoDict, l |-> <<>>]
\* a float, kept as an exact count of hundredths
Float(h) == [t |-> "float", s |-> <<>>, n |-> h, d |-> NoDict, l |-> <<>>]
Bool(b) == [t |-> "bool", s |-> <<>>, n |-> IF b THEN 1 ELSE 0, d |-> NoDict, l |-> <<>>]
Dict(d) == [t |-> "dict", s |-> <<>>, n |-> 0, d |-> d, l |-> <<>>]
List(l) == [t |-> "list", s |-> <<>>, n |-> 0, d |-> NoDict, l |-> l]
None == [t |-> "none", s |-> <<>>, n |-> 0, d |-> NoDict, l |-> <<>>]

EmptyDict == Dict(NoDict)

IsStr(v) == v.t = "str"
IsDict(v) == v.t = "dict"
IsNumber(v) == v.t \in {"num", "float", "bool"}

\* d.get(k, default) on a dict value d
Get(d, k, default) == IF k \in DOMAIN d.d THEN d.d[k] ELSE default

\* Python's ==, as far as `v in [...]` needs it: numbers compare by value
\* across int, float and bool; everything else by type and content.
PyEq(a, b) ==
    IF IsNumber(a) /\ IsNumber(b)
    THEN (IF a.t = "float" THEN a.n ELSE 100 * a.n) = (IF b.t = "float" THEN b.n ELSE 100 * b.n)
    ELSE a = b

\* Python truthiness
Truthy(v) ==
    CASE v.t = "str" -> v.s # <<>>
      [] v.t \in {"num", "float", "bool"} -> v.n # 0
      [] v.t = "dict" -> DOMAIN v.d # {} \/ v.l # <<>>
      [] v.t = "list" -> v.l # <<>>
      [] OTHER -> FALSE

(***************************************************************************)
(* Characters                                                              *)
(***************************************************************************)
UpperCase == <<"A", "B", "C", "D", "E", "F", "G", "H", "I", "J", "K", "L", "M",
               "N", "O", "P", "Q", "R", "S", "T", "U", "V", "W", "X", "Y", "Z">>
LowerCase == <<"a", "b", "c", "d", "e", "f", "g", "h", "i", "j", "k", "l", "m",
               "n", "o", "p", "q", "r", "s", "t", "u", "v", "w", "x", "y", "z">>

\* str.lower(), one character
LowerChar(c) ==
    IF \E i \in DOMAIN UpperCase : UpperCase[i] = c
    THEN LowerCase[CHOOSE i \in DOMAIN UpperCase : UpperCase[i] = c]
    ELSE c

Lower(s) == [i \in DOMAIN s |-> LowerChar(s[i])]

\* str.replace(old, new) for a one-character old and a one-character new
ReplaceChar(s, old, new) == [i \in DOMAIN s |-> IF s[i] = old THEN new ELSE s[i]]

\* sub in s
Contains(s, sub) ==
    \E i \in 0..(Len(s) - Len(sub)) : \A j \in 1..Len(sub) : s[i + j] = sub[j]

DigitChars == <<"0", "1", "2", "3", "4", "5", "6", "7", "8", "9">>

IsDigit(c) == \E i \in DOMAIN DigitChars : DigitChars[i] = c
DigitVal(c) == (CHOOSE i \in DOMAIN DigitChars : DigitChars[i] = c) - 1

\* format(n, "02d") for 0 <= n <= 99
Pad2(n) == <<DigitChars[(n \div 10) + 1], DigitChars[(n % 10) + 1]>>

\* str(n) for 0 <= n <= 99
IntStr(n) == IF n < 10 THEN <<DigitChars[n + 1]>> ELSE Pad2(n)

(***************************************************************************)
(* String literals of the two lambdas                                      *)
(***************************************************************************)
S_unknown == <<"u", "n", "k", "n", "o", "w", "n">>
S_pageview == <<"p", "a", "g", "e", "v", "i", "e", "w">>
S_page_exit == <<"p", "a", "g", "e", "_", "e", "x", "i", "t">>
S_form_submit == <<"f", "o", "r", "m", "_", "s", "u", "b", "m", "i", "t">>
S_batch == <<"b", "a", "t", "c", "h">>
S_click == <<"c", "l", "i", "c", "k">>
S_scroll == <<"s", "c", "r", "o", "l", "l">>
S_scroll_depth == <<"s", "c", "r", "o", "l", "l", "_", "d", "e", "p", "t", "h">>
S_mobile == <<"m", "o", "b", "i", "l", "e">>
S_android == <<"a", "n", "d", "r", "o", "i", "d">>
S_iphone == <<"i", "p", "h", "o", "n", "e">>
S_ipod == <<"i", "p", "o", "d">>
S_blackberry == <<"b", "l", "a", "c", "k", "b", "e", "r", "r", "y">>
S_windows_phone == <<"w", "i", "n", "d", "o", "w", "s", " ", "p", "h", "o", "n", "e">>
S_ipad == <<"i", "p", "a", "d">>
S_tablet == <<"t", "a", "b", "l", "e", "t">>
S_playbook == <<"p", "l", "a", "y", "b", "o", "o", "k">>
S_silk == <<"s", "i", "l", "k">>
S_desktop == <<"d", "e", "s", "k", "t", "o", "p">>

\* os.environ.get('ENVIRONMENT', 'dev')
ENVIRONMENT == <<"d", "e", "v">>

(***************************************************************************)
(* Time                                                                    *)
(***************************************************************************)
\* timedelta(hours=1), in milliseconds
HourMs == 3600000

DayMs == 24 * HourMs

\* calendar fields of an instant of January 1970 (UTC)
DayOf(ms) == (ms \div DayMs) + 1
HourOf(ms) == (ms \div HourMs) % 24
MinuteOf(ms) == (ms \div 60000) % 60
SecondOf(ms) == (ms \div 1000) % 60

\* datetime.isoformat() of a naive datetime with microsecond = 0
IsoFormat(ms) ==
    <<"1", "9", "7", "0", "-", "0", "1", "-">> \o Pad2(DayOf(ms)) \o <<"T">>
        \o Pad2(HourOf(ms)) \o <<":">> \o Pad2(MinuteOf(ms)) \o <<":">> \o Pad2(SecondOf(ms))

UtcOffset == <<"+", "0", "0", ":", "0", "0">>

\* datetime.isoformat() of a timezone-aware UTC datetime with microsecond = 0
IsoFormatUtc(ms) == IsoFormat(ms) \o UtcOffset

\* s.replace('Z', '+00:00')
RECURSIVE ReplaceZ(_)
ReplaceZ(s) ==
    IF s = <<>> THEN <<>>
    ELSE (IF Head(s) = "Z" THEN UtcOffset ELSE <<Head(s)>>) \o ReplaceZ(Tail(s))

TwoDigits(s, i) == 10 * DigitVal(s[i]) + DigitVal(s[i + 1])

\* the text has the layout YYYY-MM-DDTHH:MM:SS, optionally followed by +00:00,
\* and names an instant of January 1970
IsoWellFormed(s) ==
    /\ Len(s) \in {19, 25}
    /\ \A i \in {1, 2, 3, 4, 6, 7, 9, 10, 12, 13, 15, 16, 18, 19} : IsDigit(s[i])
    /\ s[5] = "-" /\ s[8] = "-" /\ s[11] = "T" /\ s[14] = ":" /\ s[17] = ":"
    /\ Len(s) = 25 => SubSeq(s, 20, 25) = UtcOffset
    /\ SubSeq(s, 1, 8) = <<"1", "9", "7", "0", "-", "0", "1", "-">>
    /\ TwoDigits(s, 9) \in 1..24
    /\ TwoDigits(s, 12) < 24 /\ TwoDigits(s, 15) < 60 /\ TwoDigits(s, 18) < 60

\* int(datetime.fromisoformat(s).timestamp() * 1000); ok = FALSE is ValueError.
\* (The process runs in UTC, so a text without an offset names a UTC instant.)
FromIsoFormatMs(s) ==
    IF IsoWellFormed(s)
    THEN [ok |-> TRUE,
          ms |-> (TwoDigits(s, 9) - 1) * DayMs + TwoDigits(s, 12) * HourMs
                 + TwoDigits(s, 15) * 60000 + TwoDigits(s, 18) * 1000]
    ELSE [ok |-> FALSE, ms |-> 0]

\* 180 days, in seconds
TtlSeconds == 180 * 24 * 60 * 60

\* int(datetime.now(timezone.utc).timestamp() + (180 * 24 * 60 * 60))
Ttl(now) == (now \div 1000) + TtlSeconds

(***************************************************************************)
(* event-collector: helpers                                                *)
(***************************************************************************)
\* str(uuid.uuid4()): a fresh identifier, here made from the invocation number
Uuid4(n) == <<"u", "u", "i", "d", "-">> \o IntStr(n)

\* context.aws_request_id: one per invocation
AwsRequestId(n) == <<"r", "e", "q", "-">> \o IntStr(n)

\* convert_floats_to_decimal: a float becomes the Decimal of the same value,
\* recursively through dicts and lists
RECURSIVE convert_floats_to_decimal(_)
convert_floats_to_decimal(obj) ==
    CASE obj.t = "float" -> [obj EXCEPT !.t = "decimal"]
      [] obj.t = "dict" ->
            [obj EXCEPT !.d = [k \in DOMAIN obj.d |-> convert_floats_to_decimal(obj.d[k])],
                        !.l = [i \in DOMAIN obj.l |-> convert_floats_to_decimal(obj.l[i])]]
      [] obj.t = "list" ->
            [obj EXCEPT !.l = [i \in DOMAIN obj.l |-> convert_floats_to_decimal(obj.l[i])]]
      [] OTHER -> obj

MobileTokens == {S_mobile, S_android, S_iphone, S_ipod, S_blackberry, S_windows_phone}
TabletTokens == {S_ipad, S_tablet, S_playbook, S_silk}

\* get_device_type(user_agent); the argument is a value (a string, when it
\* comes from the header; whatever the client sent as browser.userAgent otherwise)
get_device_type(user_agent) ==
    IF ~Truthy(user_agent) THEN S_unknown
    ELSE LET user_agent_lower == Lower(user_agent.s)
         IN  IF \E mobile \in MobileTokens : Contains(user_agent_lower, mobile) THEN S_mobile
             ELSE IF \E tablet \in TabletTokens : Contains(user_agent_lower, tablet) THEN S_tablet
             ELSE S_desktop

\* user_agent.lower() raises AttributeError on a truthy value that is no string
DeviceTypeRaises(user_agent) == Truthy(user_agent) /\ ~IsStr(user_agent)

\* a or b
Or(a, b) == IF Truthy(a) THEN a ELSE b

\* an omission step that removes zeros as well, whatever the list of empties
RemoveEmptyAndZero(item, empties) ==
    LET kept == {k \in DOMAIN item : \A e \in empties \cup {Num(0)} : ~PyEq(item[k], e)}
    IN  [k \in kept |-> item[k]]

\* the items of a dict literal, minus the keys whose value is == one of `empties`
\* ({k: v for k, v in item.items() if v not in empties})
RemoveEmpty(item, empties) ==
    LET kept == {k \in DOMAIN item : \A e \in empties : ~PyEq(item[k], e)}
    IN  [k \in kept |-> item[k]]

\* f"{v}": the text of a value inside an f-string
FormatValue(v) ==
    CASE v.t = "str" -> v.s
      [] v.t = "num" -> IntStr(v.n)
      [] v.t = "none" -> <<"N", "o", "n", "e">>
      [] v.t = "bool" -> IF v.n = 1 THEN <<"T", "r", "u", "e">> ELSE <<"F", "a", "l", "s", "e">>
      [] OTHER -> <<"?">>

(***************************************************************************)
(* event-collector: store_single_event, up to the put                      *)
(***************************************************************************)
\* the sub-objects on which store_single_event calls .get: each must be a dict
SingleSubObjects(event_data) ==
    LET attribution == Get(event_data, "attribution", EmptyDict)
        first_touch == Get(attribution, "firstTouch", EmptyDict)
        current_touch == Get(attribution, "currentTouch", EmptyDict)
        event_type == Get(event_data, "eventType", Str(S_unknown))
    IN  <<attribution>>
        \o (IF IsDict(attribution) THEN <<first_touch, current_touch>> ELSE <<>>)
        \o (IF IsDict(attribution) /\ IsDict(first_touch) /\ IsDict(current_touch)
            THEN (IF Truthy(Get(first_touch, "utmParams", None))
                  THEN <<Get(first_touch, "utmParams", None)>>
                  ELSE IF Truthy(Get(current_touch, "utmParams", None))
                       THEN <<Get(current_touch, "utmParams", None)>>
                       ELSE <<>>)
            ELSE <<>>)
        \o <<Get(event_data, "browser", EmptyDict), Get(event_data, "scroll", EmptyDict),
             Get(event_data, "page", EmptyDict)>>
        \o (IF event_type = Str(S_page_exit) THEN <<Get(event_data, "eventData", EmptyDict)>>
            ELSE <<>>)

\* timestamp_ms: [ok, ms]; ok = FALSE when fromisoformat raises ValueError
SingleTimestampMs(event_data, current_time, now) ==
    LET event_timestamp == Get(event_data, "timestamp", Str(current_time))
    IN  IF IsStr(event_timestamp)
        THEN FromIsoFormatMs(ReplaceZ(event_timestamp.s))
        ELSE [ok |-> TRUE, ms |-> now]

\* an exception is raised before the item is complete
SingleRaises(event_data, user_agent, current_time, now) ==
    \/ \E i \in DOMAIN SingleSubObjects(event_data) : ~IsDict(SingleSubObjects(event_data)[i])
    \/ DeviceTypeRaises(Get(Get(event_data, "browser", EmptyDict), "userAgent", user_agent))
    \/ ~SingleTimestampMs(event_data, current_time, now).ok

\* dynamodb_item as the dict literal builds it, before the empty values are removed
SingleItemFields(event_data, client_ip, user_agent, current_time, n, now) ==
    LET session_id == Get(event_data, "sessionId", Str(S_unknown))
        visitor_id == Get(event_data, "visitorId", Str(S_unknown))
        event_type == Get(event_data, "eventType", Str(S_unknown))
        site_id == Get(event_data, "siteId", Str(S_unknown))
        attribution == Get(event_data, "attribution", EmptyDict)
        first_touch == Get(attribution, "firstTouch", EmptyDict)
        current_touch == Get(attribution, "currentTouch", EmptyDict)
        utm == IF Truthy(Get(first_touch, "utmParams", None))
               THEN Get(first_touch, "utmParams", None)
               ELSE IF Truthy(Get(current_touch, "utmParams", None))
                    THEN Get(current_touch, "utmParams", None)
                    ELSE EmptyDict
        browser_data == Get(event_data, "browser", EmptyDict)
        scroll_data == Get(event_data, "scroll", EmptyDict)
        page_data == Get(event_data, "page", EmptyDict)
        event_specific_data == Get(event_data, "eventData", EmptyDict)
    IN  [domain_session |-> Str(FormatValue(site_id) \o <<"#">> \o FormatValue(session_id)),
         timestamp |-> Num(SingleTimestampMs(event_data, current_time, now).ms),
         eventId |-> Str(Uuid4(n)),
         sessionId |-> session_id,
         visitorId |-> visitor_id,
         eventType |-> event_type,
         siteId |-> site_id,
         url |-> Get(event_data, "url", Str(<<>>)),
         path |-> Get(event_data, "path", Str(<<>>)),
         pageTitle |-> Get(page_data, "title", Str(<<>>)),
         referrer |-> Get(page_data, "referrer", Str(<<>>)),
         ip |-> client_ip,
         userAgent |-> user_agent,
         deviceType |-> Str(get_device_type(Get(browser_data, "userAgent", user_agent))),
         utmSource |-> Get(utm, "utm_source", Str(<<>>)),
         utmMedium |-> Get(utm, "utm_medium", Str(<<>>)),
         utmCampaign |-> Get(utm, "utm_campaign", Str(<<>>)),
         trafficSource |-> Or(Get(first_touch, "source", Str(<<>>)),
                              Get(current_touch, "source", Str(<<>>))),
         trafficMedium |-> Or(Get(first_touch, "medium", Str(<<>>)),
                              Get(current_touch, "medium", Str(<<>>))),
         trafficCategory |-> Or(Get(first_touch, "category", Str(<<>>)),
                                Get(current_touch, "category", Str(<<>>))),
         maxScrollPercentage |-> Get(scroll_data, "maxScrollPercentage", Num(0)),
         timeSpent |-> IF event_type = Str(S_page_exit)
                       THEN Get(event_specific_data, "timeSpent", Num(0))
                       ELSE Num(0),
         processed_at |-> Str(current_time),
         lambda_request_id |-> Str(AwsRequestId(n)),
         environment |-> Str(ENVIRONMENT),
         ttl |-> Num(Ttl(now)),
         data |-> event_data]

\* the item handed to table.put_item: empty strings and zeros removed, floats
\* converted
SingleItem(event_data, client_ip, user_agent, current_time, n, now) ==
    LET dynamodb_item == RemoveEmpty(
            SingleItemFields(event_data, client_ip, user_agent, current_time, n, now),
            {Str(<<>>), Num(0)})
    IN  [k \in DOMAIN dynamodb_item |-> convert_floats_to_decimal(dynamodb_item[k])]

(***************************************************************************)
(* event-collector: store_batch_record, up to the put                      *)
(***************************************************************************)
\* the elements of s, each once, in order of first appearance
RECURSIVE FirstAppearances(_)
FirstAppearances(s) ==
    IF s = <<>> THEN <<>>
    ELSE LET front == FirstAppearances(SubSeq(s, 1, Len(s) - 1))
             last == s[Len(s)]
         IN  IF \E i \in DOMAIN front : front[i] = last THEN front ELSE Append(front, last)

Count(s, x) == Cardinality({i \in DOMAIN s : s[i] = x})

BatchEventType(event) == Get(event, "eventType", Str(S_unknown))

\* an exception is raised before the item is complete: .get on something that
\* is no dict, a loop over something that is no list, an ordering of non-numbers
BatchRaises(batch_data) ==
    LET events == Get(batch_data, "events", List(<<>>))
        batch_metadata == Get(batch_data, "batchMetadata", EmptyDict)
    IN  \/ events.t # "list"
        \/ ~IsDict(batch_metadata)
        \/ ~IsNumber(Get(batch_metadata, "activityDuration", Num(0)))
        \/ \E i \in DOMAIN events.l :
              LET event == events.l[i]
                  event_data == Get(event, "eventData", EmptyDict)
              IN  \/ ~IsDict(event)
                  \/ /\ BatchEventType(event) \in {Str(S_scroll), Str(S_scroll_depth)}
                     /\ \/ ~IsDict(event_data)
                        \/ Get(event_data, "scrollPercentage", Num(0)).t # "num"
                        \/ Get(event_data, "milestone", Num(0)).t # "num"

\* event_types: event type -> count, in insertion order
BatchEventTypes(events) ==
    LET types == [i \in DOMAIN events |-> BatchEventType(events[i])]
        keys == FirstAppearances(types)
    IN  [Dict(NoDict) EXCEPT
            !.l = [i \in DOMAIN keys |-> List(<<keys[i], Num(Count(types, keys[i]))>>)]]

\* total_scroll_depth: the running maximum of scrollPercentage over the scroll events
BatchMaxScrollDepth(events) ==
    LET percentages == {Get(Get(events[i], "eventData", EmptyDict), "scrollPercentage", Num(0)).n :
                            i \in {j \in DOMAIN events : BatchEventType(events[j]) = Str(S_scroll)}}
    IN  CHOOSE m \in percentages \cup {0} : \A q \in percentages \cup {0} : q <= m

\* scroll_milestones: deduplicated, then sorted
BatchScrollMilestones(events) ==
    LET IsDepth(e) == BatchEventType(e) = Str(S_scroll_depth)
        depth == SelectSeq(events, IsDepth)
        milestones == [i \in DOMAIN depth |->
                          Get(Get(depth[i], "eventData", EmptyDict), "milestone", Num(0))]
    IN  SortSeq(FirstAppearances(milestones), LAMBDA a, b : a.n < b.n)

\* round(len(events) / max(activity_duration / 1000, 1), 2) if activity_duration > 0
\* else round(0, 2); the quotient in hundredths, rounded to the nearest
BatchEngagementIntensity(count, activity_duration) ==
    IF activity_duration.n > 0
    THEN (IF activity_duration.n < 1000
          THEN Float(100 * count)
          ELSE Float((2 * 100000 * count + activity_duration.n) \div (2 * activity_duration.n)))
    ELSE Num(0)

\* dynamodb_item as the dict literal builds it, before the empty values are removed
BatchItemFields(batch_data, client_ip, user_agent, current_time, n, now) ==
    LET events == Get(batch_data, "events", List(<<>>)).l
        batch_metadata == Get(batch_data, "batchMetadata", EmptyDict)
        session_id == Get(batch_data, "sessionId", Str(S_unknown))
        visitor_id == Get(batch_data, "visitorId", Str(S_unknown))
        site_id == Get(batch_data, "siteId", Str(S_unknown))
        activity_duration == Get(batch_metadata, "activityDuration", Num(0))
    IN  [domain_session |-> Str(FormatValue(site_id) \o <<"#">> \o FormatValue(session_id)),
         timestamp |-> Num(now),
         eventId |-> Str(Uuid4(n)),
         eventType |-> Str(S_batch),
         sessionId |-> session_id,
         visitorId |-> visitor_id,
         siteId |-> site_id,
         batchId |-> Str(Uuid4(n)),
         eventCount |-> Num(Len(events)),
         activityDuration |-> activity_duration,
         sentOnExit |-> Get(batch_metadata, "sentOnExit", Bool(FALSE)),
         batchStartTime |-> Get(batch_metadata, "batchStartTime", Str(<<>>)),
         batchEndTime |-> Get(batch_metadata, "batchEndTime", Str(<<>>)),
         eventTypes |-> BatchEventTypes(events),
         clickCount |-> Num(Count([i \in DOMAIN events |-> BatchEventType(events[i])],
                                  Str(S_click))),
         scrollEvents |-> Num(Count([i \in DOMAIN events |-> BatchEventType(events[i])],
                                    Str(S_scroll))),
         scrollMilestones |-> List(BatchScrollMilestones(events)),
         maxScrollDepth |-> Num(BatchMaxScrollDepth(events)),
         engagementIntensity |-> BatchEngagementIntensity(Len(events), activity_duration),
         ip |-> client_ip,
         userAgent |-> user_agent,
         processed_at |-> Str(current_time),
         lambda_request_id |-> Str(AwsRequestId(n)),
         environment |-> Str(ENVIRONMENT),
         ttl |-> Num(Ttl(now)),
         data |-> batch_data]

\* the item handed to table.put_item: empty strings, lists and dicts removed,
\* floats converted
BatchItem(batch_data, client_ip, user_agent, current_time, n, now) ==
    LET dynamodb_item == RemoveEmpty(
            BatchItemFields(batch_data, client_ip, user_agent, current_time, n, now),
            {Str(<<>>), List(<<>>), EmptyDict})
    IN  [k \in DOMAIN dynamodb_item |-> convert_floats_to_decimal(dynamodb_item[k])]

(***************************************************************************)
(* event-collector: lambda_handler                                         *)
(***************************************************************************)
\* a Python str holding the JSON text of value v
JsonText(v) == [t |-> "json", s |-> <<>>, n |-> 0, d |-> NoDict, l |-> <<v>>]

\* json.loads(x): the parsed value of a JSON text; JSONDecodeError on any other
\* str (the plain strings of the model are no JSON texts); TypeError on a
\* value that is no str
JsonLoads(x) ==
    CASE x.t = "json" -> [outcome |-> "value", value |-> x.l[1]]
      [] x.t = "str" -> [outcome |-> "JSONDecodeError", value |-> None]
      [] OTHER -> [outcome |-> "TypeError", value |-> None]

M_GET == Str(<<"G", "E", "T">>)
M_POST == Str(<<"P", "O", "S", "T">>)
M_OPTIONS == Str(<<"O", "P", "T", "I", "O", "N", "S">>)

\* x = event.get(k, {}); if x is None: x = {}
GetOrEmpty(d, k) == LET x == Get(d, k, EmptyDict) IN IF x = None THEN EmptyDict ELSE x

ClientIp(event) ==
    Get(GetOrEmpty(GetOrEmpty(event, "requestContext"), "identity"), "sourceIp", Str(S_unknown))

UserAgent(event) == Get(GetOrEmpty(event, "headers"), "User-Agent", Str(<<>>))

\* .get on requestContext, identity or headers that is neither None nor a dict
EnvelopeRaises(event) ==
    \/ ~IsDict(GetOrEmpty(event, "requestContext"))
    \/ ~IsDict(GetOrEmpty(GetOrEmpty(event, "requestContext"), "identity"))
    \/ ~IsDict(GetOrEmpty(event, "headers"))

\* tracking_data of a GET request
TrackingData(event, current_time) ==
    LET q == Get(event, "queryStringParameters", None)
        query_params == IF q = None THEN EmptyDict ELSE q
    IN  Dict([eventType |-> Get(query_params, "type", Str(S_pageview)),
              sessionId |-> Get(query_params, "sid", Str(S_unknown)),
              visitorId |-> Get(query_params, "vid", Str(S_unknown)),
              url |-> Get(query_params, "url", Str(<<>>)),
              timestamp |-> Str(current_time),
              referrer |-> Get(query_params, "ref", Str(<<>>)),
              userAgent |-> UserAgent(event),
              ip |-> ClientIp(event),
              source |-> Get(query_params, "source", Str(<<>>)),
              medium |-> Get(query_params, "medium", Str(<<>>)),
              campaign |-> Get(query_params, "campaign", Str(<<>>))])

\* body of a POST request: [raised, body]
PostBody(event) ==
    LET loaded == JsonLoads(Get(event, "body", JsonText(EmptyDict)))
    IN  CASE loaded.outcome = "value" -> [raised |-> ~IsDict(loaded.value), body |-> loaded.value]
          [] loaded.outcome = "JSONDecodeError" -> [raised |-> FALSE, body |-> EmptyDict]
          [] OTHER -> [raised |-> TRUE, body |-> None]

\* a routing that hands every request to the single-event normalizer
RouteAlwaysSingle(event) ==
    IF EnvelopeRaises(event) THEN "raise"
    ELSE IF Get(event, "httpMethod", None) = M_GET
         THEN (IF Get(event, "queryStringParameters", None).t \in {"none", "dict"}
               THEN "single" ELSE "raise")
         ELSE IF PostBody(event).raised THEN "raise" ELSE "single"

\* which normalizer the request is routed to: "single", "batch", or "raise"
\* when an exception is raised before a normalizer is called
Route(event) ==
    IF EnvelopeRaises(event) THEN "raise"
    ELSE IF Get(event, "httpMethod", None) = M_GET
         THEN (IF Get(event, "queryStringParameters", None).t \in {"none", "dict"}
               THEN "single" ELSE "raise")
         ELSE IF PostBody(event).raised THEN "raise"
              ELSE IF Get(PostBody(event).body, "eventType", Str(S_unknown)) = Str(S_batch)
                   THEN "batch" ELSE "single"

\* the argument of the normalizer
Payload(event, current_time) ==
    IF Get(event, "httpMethod", None) = M_GET
    THEN TrackingData(event, current_time)
    ELSE PostBody(event).body

\* the normalizer raises before it reaches table.put_item
NormalizerRaises(event, current_time, now) ==
    CASE Route(event) = "single" ->
            SingleRaises(Payload(event, current_time), UserAgent(event), current_time, now)
      [] Route(event) = "batch" -> BatchRaises(Payload(event, current_time))
      [] OTHER -> TRUE

\* the item the normalizer hands to table.put_item
NormalizedItem(event, current_time, n, now) ==
    IF Route(event) = "batch"
    THEN BatchItem(Payload(event, current_time), ClientIp(event), UserAgent(event),
                   current_time, n, now)
    ELSE SingleItem(Payload(event, current_time), ClientIp(event), UserAgent(event),
                    current_time, n, now)

\* table.put_item(Item=item) is accepted only with both key attributes of the
\* table, domain_session (a string) and timestamp (a number)
PutAccepted(item) ==
    /\ "domain_session" \in DOMAIN item /\ item["domain_session"].t = "str"
    /\ "timestamp" \in DOMAIN item /\ item["timestamp"].t = "num"

ItemKey(item) == <<item["domain_session"].s, item["timestamp"].n>>

CorsHeaders ==
    [origin |-> "*", methods |-> "POST, GET, OPTIONS", headers |-> "Content-Type"]

PreflightResponse == [statusCode |-> 200, headers |-> CorsHeaders, body |-> ""]

SuccessResponse ==
    [statusCode |-> 200, headers |-> CorsHeaders,
     body |-> "{\"status\": \"success\", \"message\": \"Tracking data received\"}"]

ErrorResponse ==
    [statusCode |-> 500, headers |-> [origin |-> "*", methods |-> "", headers |-> ""],
     body |-> "{\"status\": \"error\", \"message\": \"Failed to process tracking data\"}"]

\* a handler that answers with the success response whatever put_item does
lambda_handler_put_unchecked(event, n, now, storeUp) ==
    LET current_time == IsoFormat(now)
    IN  IF Get(event, "httpMethod", None) = M_OPTIONS
        THEN [response |-> PreflightResponse, put |-> FALSE, item |-> <<>>]
        ELSE IF NormalizerRaises(event, current_time, now)
             THEN [response |-> ErrorResponse, put |-> FALSE, item |-> <<>>]
             ELSE LET item == NormalizedItem(event, current_time, n, now)
                  IN  IF storeUp /\ PutAccepted(item)
                      THEN [response |-> SuccessResponse, put |-> TRUE, item |-> item]
                      ELSE [response |-> SuccessResponse, put |-> FALSE, item |-> <<>>]

\* lambda_handler(event, context) at instant `now`, as invocation number n, the
\* store accepting writes or not (storeUp): the response, and the item put
\* (put = FALSE when no put_item call completed)
lambda_handler(event, n, now, storeUp) ==
    LET current_time == IsoFormat(now)
    IN  IF Get(event, "httpMethod", None) = M_OPTIONS
        THEN [response |-> PreflightResponse, put |-> FALSE, item |-> <<>>]
        ELSE IF NormalizerRaises(event, current_time, now)
             THEN [response |-> ErrorResponse, put |-> FALSE, item |-> <<>>]
             ELSE LET item == NormalizedItem(event, current_time, n, now)
                  IN  IF storeUp /\ PutAccepted(item)
                      THEN [response |-> SuccessResponse, put |-> TRUE, item |-> item]
                      ELSE [response |-> ErrorResponse, put |-> FALSE, item |-> <<>>]

(***************************************************************************)
(* Requests of the ingestion runs                                          *)
(***************************************************************************)
T_epoch == Str(<<"1", "9", "7", "0", "-", "0", "1", "-", "0", "1", "T", "0", "0", ":", "0", "0", ":", "0", "0", "Z">>)
T_hour1 == Str(<<"1", "9", "7", "0", "-", "0", "1", "-", "0", "1", "T", "0", "1", ":", "0", "0", ":", "0", "0", "Z">>)
T_hour1_offset == Str(<<"1", "9", "7", "0", "-", "0", "1", "-", "0", "1", "T", "0", "1", ":", "0", "0", ":", "0", "0", "+", "0", "0", ":", "0", "0">>)
T_bad == Str(<<"n", "o", "t", "-", "a", "-", "d", "a", "t", "e">>)

Site_a_dot_b == Str(<<"a", ".", "b">>)
Session_s1 == Str(<<"s", "1">>)

BaseEvent ==
    [eventType |-> Str(S_pageview), sessionId |-> Session_s1, siteId |-> Site_a_dot_b,
     timestamp |-> T_hour1]

\* d with key k set to v
With(d, k, v) == [x \in DOMAIN d \cup {k} |-> IF x = k THEN v ELSE d[x]]
\* d without key k
Without(d, k) == [x \in DOMAIN d \ {k} |-> d[x]]

SingleEvents ==
    { NoDict,
      BaseEvent,
      With(BaseEvent, "timestamp", T_epoch),
      With(BaseEvent, "timestamp", T_hour1_offset),
      With(BaseEvent, "timestamp", T_bad),
      With(BaseEvent, "timestamp", Num(5)),
      Without(BaseEvent, "timestamp"),
      With(With(BaseEvent, "siteId", Str(<<>>)), "sessionId", Str(<<>>)),
      With(BaseEvent, "siteId", Num(7)),
      With(With(With(BaseEvent, "path", Str(<<>>)),
                "page", Dict([title |-> Str(<<"T">>)])),
           "attribution", Dict([firstTouch |-> Dict([source |-> Str(<<"g">>)]),
                                currentTouch |-> Dict([source |-> Str(<<"x">>),
                                                       medium |-> Str(<<"m">>)])])),
      With(With(With(BaseEvent, "eventType", Str(S_page_exit)),
                "eventData", Dict([timeSpent |-> Num(7)])),
           "scroll", Dict([maxScrollPercentage |-> Num(0)])) }

SubEvent(type) == Dict([eventType |-> Str(type)])
ScrollEvent(p) == Dict([eventType |-> Str(S_scroll), eventData |-> Dict([scrollPercentage |-> Num(p)])])
DepthEvent(m) == Dict([eventType |-> Str(S_scroll_depth), eventData |-> Dict([milestone |-> Num(m)])])

BatchEnvelopes ==
    { [eventType |-> Str(S_batch)],
      [eventType |-> Str(S_batch), sessionId |-> Session_s1, siteId |-> Site_a_dot_b,
       events |-> List(<<SubEvent(S_click)>>),
       batchMetadata |-> Dict([activityDuration |-> Num(0)])],
      [eventType |-> Str(S_batch), sessionId |-> Session_s1, siteId |-> Site_a_dot_b,
       events |-> List(<<SubEvent(S_click), ScrollEvent(50), DepthEvent(50), DepthEvent(25),
                         DepthEvent(50), ScrollEvent(30)>>),
       batchMetadata |-> Dict([activityDuration |-> Num(4000), sentOnExit |-> Bool(TRUE)])] }

\* the body of a POST request: the key absent, None, a text that is no JSON, the
\* JSON text of a list, the JSON text of an object
PostBodies ==
    {None, Str(<<"{">>), JsonText(List(<<>>))}
        \cup {JsonText(Dict(e)) : e \in SingleEvents \cup BatchEnvelopes}

Query_s2 ==
    Dict([type |-> Str(S_pageview), sid |-> Str(<<"s", "2">>), vid |-> Str(<<"v", "2">>)])

\* requests with requestContext and headers None, as the gateway sends them for
\* a request without them
PlainEvents ==
    LET envelope == [requestContext |-> None, headers |-> None]
    IN  {Dict(With(envelope, "httpMethod", M_OPTIONS))}
        \cup {Dict(With(With(envelope, "httpMethod", M_GET), "queryStringParameters", q)) :
                q \in {None, Query_s2}}
        \cup {Dict(With(envelope, "httpMethod", M_POST))}
        \cup {Dict(With(With(envelope, "httpMethod", M_POST), "body", b)) : b \in PostBodies}

\* requests that carry a source address and a user agent
AddressedEvents ==
    LET envelope == ("requestContext" :> Dict([identity |-> Dict([sourceIp |-> Str(<<"1", ".", "2">>)])])
                     @@ "headers" :> Dict("User-Agent" :> Str(<<"i", "P", "a", "d">>)))
    IN  {Dict(With(With(envelope, "httpMethod", M_GET), "queryStringParameters", EmptyDict)),
         Dict(With(With(envelope, "httpMethod", M_POST), "body", JsonText(Dict(BaseEvent))))}

IngestEvents == PlainEvents \cup AddressedEvents

(***************************************************************************)
(* State of the ingestion side, and its actions                            *)
(***************************************************************************)
\* instants of the runs: StartInstant, then half-hour steps
StartInstant == 2 * HourMs
HalfHourMs == HourMs \div 2
MaxTicks == 2
MaxInvocations == 2

NoRequest == [event |-> None, storeUp |-> TRUE, n |-> 0, now |-> 0]
NoResponse == [statusCode |-> 0, headers |-> [origin |-> "", methods |-> "", headers |-> ""], body |-> ""]
EmptyTable == <<>>

\* table.put_item(Item=item): the item replaces whatever the table holds under its key
PutItem(tbl, item) ==
    [k \in DOMAIN tbl \cup {ItemKey(item)} |-> IF k = ItemKey(item) THEN item ELSE tbl[k]]

\* time passes between two runs of the archiver (a run lasts less than the
\* step of the clock)
Tick ==
    /\ clock + HalfHourMs <= StartInstant + MaxTicks * HalfHourMs
    /\ pc = "idle"
    /\ clock' = clock + HalfHourMs
    /\ UNCHANGED <<ingestVars, archiveVars>>

\* one invocation of the event-collector, at the instant of the clock or half
\* an hour later
Ingest ==
    /\ invocations < MaxInvocations
    /\ \E event \in IngestEvents, storeUp \in BOOLEAN, now \in {clock, clock + HalfHourMs} :
          \E result \in {lambda_handler(event, invocations + 1, now, storeUp)} :
              /\ now <= StartInstant + MaxTicks * HalfHourMs
              /\ clock' = now
              /\ invocations' = invocations + 1
              /\ request' = [event |-> event, storeUp |-> storeUp,
                             n |-> invocations + 1, now |-> now]
              /\ response' = result.response
              /\ putCalls' = IF result.put THEN 1 ELSE 0
              /\ table' = IF result.put THEN PutItem(table, result.item) ELSE table
    /\ UNCHANGED archiveVars

(***************************************************************************)
(* s3-archiver: the store's scan                                           *)
(***************************************************************************)
\* The store keeps its items in an order of its own, the same from one scan to
\* the next while the items do not change: by partition key, and inside a
\* partition by ascending sort key.
Alphabet == DigitChars \o LowerCase \o UpperCase \o <<"#", ".", "-", "_", "/", " ">>
CharRank(c) == CHOOSE i \in DOMAIN Alphabet : Alphabet[i] = c

RECURSIVE TextBefore(_, _)
TextBefore(a, b) ==
    IF b = <<>> THEN FALSE
    ELSE IF a = <<>> THEN TRUE
    ELSE IF Head(a) = Head(b) THEN TextBefore(Tail(a), Tail(b))
    ELSE CharRank(Head(a)) < CharRank(Head(b))

KeyBefore(j, k) == TextBefore(j[1], k[1]) \/ (j[1] = k[1] /\ j[2] < k[2])

\* the keys of the table in the order in which a scan evaluates them
ScanOrder(tbl) ==
    [i \in 1..Cardinality(DOMAIN tbl) |->
        CHOOSE k \in DOMAIN tbl : Cardinality({j \in DOMAIN tbl : KeyBefore(j, k)}) = i - 1]

\* FilterExpression "#ts BETWEEN :start_ts AND :end_ts"
Between(item, start_ts, end_ts) ==
    start_ts <= item["timestamp"].n /\ item["timestamp"].n <= end_ts

\* response['Items'] of one table.scan call that evaluates the rows
\* cursor+1 .. cursor+k of the table
ScanItems(tbl, cursor, k, start_ts, end_ts) ==
    LET order == ScanOrder(tbl)
        rows == [i \in 1..k |-> tbl[order[cursor + i]]]
        Matches(item) == Between(item, start_ts, end_ts)
    IN  SelectSeq(rows, Matches)

\* a scan loop that keeps the items of the last page only
AccumulateOverwrite(events, items) == items

\* events = response.get('Items', []) on the first call, events.extend(...) after
Accumulate(events, items) == events \o items

(***************************************************************************)
(* s3-archiver: get_events_by_site, archive_site_events                    *)
(***************************************************************************)
\* an end of the time range that is the instant of the run itself
EndTimeNotTruncated(now) == now

\* end_time = now.replace(minute=0, second=0, microsecond=0)
EndTime(now) == now - (now % HourMs)
\* start_time = end_time - timedelta(hours=1)
StartTime(now) == EndTime(now) - HourMs

\* event.get('siteId', 'unknown')
GroupSite(item) == IF "siteId" \in DOMAIN item THEN item["siteId"] ELSE Str(S_unknown)

\* events_by_site: the sites in order of first appearance, each with its events
EventsBySite(events) ==
    LET sites == FirstAppearances([i \in DOMAIN events |-> GroupSite(events[i])])
    IN  [g \in DOMAIN sites |->
            LET OfSite(item) == GroupSite(item) = sites[g]
            IN  [site_id |-> sites[g], events |-> SelectSeq(events, OfSite)]]

\* site_id.replace('.', '-').replace('/', '-').lower()
CleanSiteId(site_id) == Lower(ReplaceChar(ReplaceChar(site_id, ".", "-"), "/", "-"))

\* s3_key: the fields that the f-string of the key interpolates, site-logs/
\* domain={domain}/year={year}/month={month}/day={day}/hour={hour}/events-{file}.jsonl
S3Key(site_id, hour_start) ==
    [domain |-> CleanSiteId(site_id),
     year |-> <<"1", "9", "7", "0">>,
     month |-> <<"0", "1">>,
     day |-> Pad2(DayOf(hour_start)),
     hour |-> Pad2(HourOf(hour_start)),
     file |-> <<"1", "9", "7", "0", "-", "0", "1", "-">> \o Pad2(DayOf(hour_start))
              \o <<"-">> \o Pad2(HourOf(hour_start))]

\* decimal_default through json.dumps: a Decimal is written as a float
RECURSIVE DecimalsToFloats(_)
DecimalsToFloats(obj) ==
    CASE obj.t = "decimal" -> [obj EXCEPT !.t = "float"]
      [] obj.t \in {"dict", "list"} ->
            [obj EXCEPT !.d = [k \in DOMAIN obj.d |-> DecimalsToFloats(obj.d[k])],
                        !.l = [i \in DOMAIN obj.l |-> DecimalsToFloats(obj.l[i])]]
      [] OTHER -> obj

\* json.dumps(event, default=decimal_default, separators=(',', ':'))
EventJson(event) == JsonText(DecimalsToFloats(Dict(event)))

\* the object that archive_site_events hands to s3_client.put_object
ArchiveObject(site_id, events, hour_start, now) ==
    [header |-> [site_id |-> site_id,
                 hour_start |-> IsoFormatUtc(hour_start),
                 event_count |-> Len(events),
                 archived_at |-> IsoFormatUtc(now),
                 environment |-> ENVIRONMENT],
     lines |-> [i \in DOMAIN events |-> EventJson(events[i])],
     ContentType |-> "application/jsonl",
     Metadata |-> [site_id |-> site_id,
                   event_count |-> IntStr(Len(events)),
                   hour_start |-> IsoFormatUtc(hour_start),
                   environment |-> ENVIRONMENT]]

\* s3_client.put_object(Key=key, ...): the object replaces whatever is under the key
PutObject(bucket, key, object) ==
    [k \in DOMAIN bucket \cup {key} |-> IF k = key THEN object ELSE bucket[k]]

\* f"{start_time.isoformat()} to {end_time.isoformat()}"
TimeRange(now) == IsoFormatUtc(StartTime(now)) \o <<" ", "t", "o", " ">> \o IsoFormatUtc(EndTime(now))

NoResult ==
    [statusCode |-> 0, message |-> "", error |-> "", files_created |-> 0,
     sites_processed |-> 0, time_range |-> <<>>, archived_files |-> <<>>]

NothingToArchive(now) ==
    [NoResult EXCEPT !.statusCode = 200, !.message = "No events to archive",
                     !.time_range = TimeRange(now)]

Archived(now, archived_files, events_by_site) ==
    [NoResult EXCEPT !.statusCode = 200, !.message = "Events archived successfully",
                     !.files_created = Len(archived_files),
                     !.sites_processed = Len(events_by_site),
                     !.time_range = TimeRange(now),
                     !.archived_files = archived_files]

\* the result of the except branch of lambda_handler; message is str(e)
ArchivalFailed(message) ==
    [NoResult EXCEPT !.statusCode = 500, !.error = "Archival failed", !.message = message]

(***************************************************************************)
(* s3-archiver: one run of lambda_handler, step by step                    *)
(***************************************************************************)
MaxRuns == 2

\* no run yet
IdleRun ==
    [number |-> 0, now |-> 0, start_timestamp |-> 0, end_timestamp |-> 0,
     cursor |-> 0,              \* rows of the table that the scan has evaluated
     scanned |-> FALSE,         \* the first table.scan call has returned
     continued |-> FALSE,       \* a call with ExclusiveStartKey has returned
     emptyPage |-> FALSE,       \* a call returned no item and a LastEvaluatedKey
     events |-> <<>>,
     grouped |-> FALSE, events_by_site |-> <<>>,
     next |-> 0,                \* position of the for loop over events_by_site
     archived_files |-> <<>>,
     written |-> <<>>,          \* the objects that this run has put, by key
     scanFailed |-> FALSE, putFailed |-> FALSE, raised |-> FALSE,
     s3Before |-> <<>>,         \* cold storage when the run started
     result |-> NoResult]

\* what is kept of a finished run
Summary(r) ==
    [number |-> r.number, now |-> r.now, start_timestamp |-> r.start_timestamp,
     events |-> r.events, written |-> r.written,
     storeFailed |-> r.scanFailed \/ r.putFailed]

NoSummary == Summary(IdleRun)

\* lambda_handler is invoked: the time range of the previous hour
StartRun ==
    /\ pc = "idle"
    /\ run.number < MaxRuns
    /\ prev' = Summary(run)
    /\ run' = [IdleRun EXCEPT !.number = run.number + 1,
                              !.now = clock,
                              !.start_timestamp = StartTime(clock),
                              !.end_timestamp = EndTime(clock),
                              !.s3Before = s3]
    /\ pc' = "scan"
    /\ UNCHANGED <<clock, ingestVars, s3>>

\* one table.scan call returns: it has evaluated the next k rows (at least one
\* while rows remain) and carries a LastEvaluatedKey while rows remain, and
\* possibly also when the page ended on the last row
ScanPage ==
    /\ pc = "scan"
    /\ \E k \in 0..Cardinality(DOMAIN table), more \in BOOLEAN :
          LET remaining == Cardinality(DOMAIN table) - run.cursor
              items == ScanItems(table, run.cursor, k, run.start_timestamp, run.end_timestamp)
              lastEvaluatedKey == k < remaining \/ (more /\ k > 0)
          IN  /\ k <= remaining
              /\ remaining > 0 => k > 0
              /\ run' = [run EXCEPT !.events = Accumulate(@, items),
                                    !.cursor = @ + k,
                                    !.scanned = TRUE,
                                    !.continued = run.scanned,
                                    !.emptyPage = @ \/ (items = <<>> /\ lastEvaluatedKey)]
              /\ pc' = IF lastEvaluatedKey THEN "scan" ELSE "group"
    /\ UNCHANGED <<clock, ingestVars, s3, prev>>

\* a table.scan call raises and get_events_by_site swallows the exception,
\* going on with the events read so far
ScanFailSwallowed ==
    /\ pc = "scan"
    /\ run' = [run EXCEPT !.scanFailed = TRUE]
    /\ pc' = "group"
    /\ UNCHANGED <<clock, ingestVars, s3, prev>>

\* a table.scan call raises: get_events_by_site re-raises, lambda_handler
\* returns the failure result
ScanFail ==
    /\ pc = "scan"
    /\ run' = [run EXCEPT !.scanFailed = TRUE, !.result = ArchivalFailed("scan error")]
    /\ pc' = "idle"
    /\ UNCHANGED <<clock, ingestVars, s3, prev>>

\* the scan is exhausted: group by site; lambda_handler returns at once when
\* there is no group
Group ==
    /\ pc = "group"
    /\ LET events_by_site == EventsBySite(run.events)
       IN  /\ run' = [run EXCEPT !.grouped = TRUE,
                                 !.events_by_site = events_by_site,
                                 !.next = 1,
                                 !.result = IF events_by_site = <<>>
                                            THEN NothingToArchive(run.now) ELSE @]
           /\ pc' = IF events_by_site = <<>> THEN "idle" ELSE "archive"
    /\ UNCHANGED <<clock, ingestVars, s3, prev>>

\* archive_site_events for the next site, the object written
ArchiveSite ==
    /\ pc = "archive"
    /\ run.next <= Len(run.events_by_site)
    /\ LET group == run.events_by_site[run.next]
       IN  /\ IsStr(group.site_id)
           /\ LET s3_key == S3Key(group.site_id.s, run.start_timestamp)
                  object == ArchiveObject(group.site_id.s, group.events,
                                          run.start_timestamp, clock)
              IN  /\ s3' = PutObject(s3, s3_key, object)
                  /\ run' = [run EXCEPT !.next = @ + 1,
                                        !.archived_files = Append(@, s3_key),
                                        !.written = PutObject(@, s3_key, object)]
    /\ UNCHANGED <<clock, ingestVars, pc, prev>>

\* archive_site_events for the next site, put_object raising: the exception is
\* caught, None is returned, the loop goes on
ArchiveSiteFails ==
    /\ pc = "archive"
    /\ run.next <= Len(run.events_by_site)
    /\ IsStr(run.events_by_site[run.next].site_id)
    /\ run' = [run EXCEPT !.next = @ + 1, !.putFailed = TRUE]
    /\ UNCHANGED <<clock, ingestVars, pc, s3, prev>>

\* archive_site_events for a site_id that is no str: site_id.replace raises
\* AttributeError before the try block, lambda_handler returns the failure result
ArchiveSiteRaises ==
    /\ pc = "archive"
    /\ run.next <= Len(run.events_by_site)
    /\ ~IsStr(run.events_by_site[run.next].site_id)
    /\ run' = [run EXCEPT !.raised = TRUE, !.result = ArchivalFailed("AttributeError")]
    /\ pc' = "idle"
    /\ UNCHANGED <<clock, ingestVars, s3, prev>>

\* the loop over the sites is over: the success result
FinishRun ==
    /\ pc = "archive"
    /\ run.next > Len(run.events_by_site)
    /\ run' = [run EXCEPT !.result = Archived(run.now, run.archived_files, run.events_by_site)]
    /\ pc' = "idle"
    /\ UNCHANGED <<clock, ingestVars, s3, prev>>

(***************************************************************************)
(* Specifications                                                          *)
(***************************************************************************)
\* ingestion, from an empty table
InitIngest ==
    /\ clock = StartInstant
    /\ table = EmptyTable
    /\ invocations = 0
    /\ request = NoRequest
    /\ response = NoResponse
    /\ putCalls = 0
    /\ pc = "idle"
    /\ run = IdleRun
    /\ s3 = <<>>
    /\ prev = NoSummary

NextIngest == Ingest

SpecIngest == InitIngest /\ [][NextIngest]_vars

\* Records that ingestion has stored by StartInstant: single events of several
\* sites with client timestamps before, on and after the hour boundaries.
SeedEvent(site_id, ms) ==
    With(With(BaseEvent, "siteId", site_id), "timestamp", Str(IsoFormat(ms) \o <<"Z">>))

SeedEvents ==
    << SeedEvent(Site_a_dot_b, HourMs),
       SeedEvent(Str(<<"a", "-", "b">>), HourMs + HalfHourMs),
       SeedEvent(Site_a_dot_b, 2 * HourMs),
       SeedEvent(Str(<<>>), HourMs + HalfHourMs),
       SeedEvent(Num(7), HourMs + HalfHourMs),
       SeedEvent(Site_a_dot_b, HalfHourMs) >>

SeedItem(n) ==
    lambda_handler(Dict([requestContext |-> None, headers |-> None, httpMethod |-> M_POST,
                         body |-> JsonText(Dict(SeedEvents[n]))]),
                   n, StartInstant, TRUE).item

MaxStored == 3

SeedTables ==
    {[k \in {ItemKey(SeedItem(n)) : n \in chosen} |->
        SeedItem(CHOOSE n \in chosen : ItemKey(SeedItem(n)) = k)] :
        chosen \in {c \in SUBSET DOMAIN SeedEvents : Cardinality(c) <= MaxStored}}

\* archival runs over a table that ingestion has filled
InitArchive ==
    /\ clock = StartInstant
    /\ table \in SeedTables
    /\ invocations = Len(SeedEvents)
    /\ request = NoRequest
    /\ response = NoResponse
    /\ putCalls = 0
    /\ pc = "idle"
    /\ run = IdleRun
    /\ s3 = <<>>
    /\ prev = NoSummary

NextArchive ==
    \/ Tick
    \/ StartRun
    \/ ScanPage
    \/ ScanFail
    \/ Group
    \/ ArchiveSite
    \/ ArchiveSiteFails
    \/ ArchiveSiteRaises
    \/ FinishRun

SpecArchive == InitArchive /\ [][NextArchive]_vars

(***************************************************************************)
(* Properties of the archiver (checked under SpecArchive)                  *)
(***************************************************************************)
SeqToSet(q) == {q[i] : i \in DOMAIN q}

Items(tbl) == {tbl[k] : k \in DOMAIN tbl}

\* C1: an archival run invoked during hour H selects exactly the stored records
\* with start_of_(H-1) <= timestamp < start_of_H, so that the runs of two
\* different hours select disjoint sets of records.
C1_HalfOpenWindow ==
    run.grouped =>
        /\ SeqToSet(run.events) =
              {item \in Items(table) :
                  /\ (run.now \div HourMs - 1) * HourMs <= item["timestamp"].n
                  /\ item["timestamp"].n < (run.now \div HourMs) * HourMs}
        /\ (prev.number > 0 /\ prev.now \div HourMs # run.now \div HourMs)
              => SeqToSet(run.events) \cap SeqToSet(prev.events) = {}

C3_SiteFailureIsolated ==
    (pc = "idle" /\ run.grouped /\ run.events_by_site # <<>>) =>
        /\ run.result.statusCode = 200
        /\ run.result.message = "Events archived successfully"
        /\ run.next = Len(run.events_by_site) + 1
        /\ SeqToSet(run.result.archived_files) = DOMAIN run.written

\* C4: a scan call that fails, the first or a later one, ends the run at once:
\* no further scan call, no object written by the run, cold storage as it was
\* when the run started, and the failure result (500, error marker, message).
C4_ScanFailureAborts ==
    run.scanFailed =>
        /\ pc = "idle"
        /\ ~run.grouped
        /\ DOMAIN run.written = {}
        /\ s3 = run.s3Before
        /\ run.result.statusCode = 500
        /\ run.result.error = "Archival failed"
        /\ run.result.message # ""

\* a scan that failed on a continuation call, after a page with records
C4_Witness == run.scanFailed /\ run.continued /\ run.events # <<>>

WithoutArchivedAt(object) == [object EXCEPT !.header.archived_at = <<>>]

\* C5: two runs for the same hour over an unchanged table, neither hit by a
\* failure of the store or of cold storage, write the same keys, the second
\* write replacing the object of the first (no further object appears), and
\* the objects are equal except for archived_at.
C5_RerunIdempotent ==
    (/\ pc = "idle" /\ run.number > 0 /\ prev.number > 0
     /\ run.now \div HourMs = prev.now \div HourMs
     /\ ~prev.storeFailed /\ ~run.scanFailed /\ ~run.putFailed) =>
        /\ DOMAIN run.written = DOMAIN prev.written
        /\ \A k \in DOMAIN run.written :
              /\ WithoutArchivedAt(run.written[k]) = WithoutArchivedAt(prev.written[k])
              /\ s3[k] = run.written[k]
        /\ DOMAIN s3 = DOMAIN run.s3Before

\* a second run of the same hour, later in the hour, that wrote objects
C5_Witness ==
    /\ pc = "idle" /\ run.number > 0 /\ prev.number > 0
    /\ run.now \div HourMs = prev.now \div HourMs /\ run.now # prev.now
    /\ ~prev.storeFailed /\ ~run.scanFailed /\ ~run.putFailed
    /\ Cardinality(DOMAIN run.written) >= 2

\* C6: in a run whose writes all succeed, two different siteId values are
\* written to two different keys: cold storage holds one object per group, and
\* each object holds the records of its own site, event_count of them.
C6_OneObjectPerSite ==
    (/\ pc = "idle" /\ run.grouped /\ run.events_by_site # <<>>
     /\ run.result.statusCode = 200 /\ ~run.putFailed) =>
        /\ Len(run.archived_files) = Len(run.events_by_site)
        /\ \A g, h \in DOMAIN run.archived_files :
              g # h => run.archived_files[g] # run.archived_files[h]
        /\ \A g \in DOMAIN run.archived_files :
              LET object == s3[run.archived_files[g]]
              IN  /\ object.header.site_id = run.events_by_site[g].site_id.s
                  /\ object.header.event_count = Len(object.lines)
                  /\ Len(object.lines) = Len(run.events_by_site[g].events)

(***************************************************************************)
(* Properties of ingestion (checked under SpecIngest)                      *)
(***************************************************************************)
Method(req) == Get(req.event, "httpMethod", None)

\* the records in the table that invocation n has put
RecordsOf(n) ==
    {k \in DOMAIN table : table[k]["eventId"].s = <<"u", "u", "i", "d", "-">> \o IntStr(n)}

SuccessBody == "{\"status\": \"success\", \"message\": \"Tracking data received\"}"
ErrorBody == "{\"status\": \"error\", \"message\": \"Failed to process tracking data\"}"

\* C7: ingestion never changes or replaces a record that is in the table, and
\* every successful GET or POST ingestion adds one record to the table.
C7_RecordsNeverReplaced ==
    [][/\ \A k \in DOMAIN table : k \in DOMAIN table' /\ table'[k] = table[k]
       /\ (invocations' # invocations /\ response'.statusCode = 200
           /\ Method(request') \in {M_GET, M_POST})
             => Cardinality(DOMAIN table') = Cardinality(DOMAIN table) + 1]_vars

\* C8: the response of an invocation agrees with what it did to the table: at
\* most one put; an error response, and no record of the invocation in the
\* table; a success response to a GET or POST, and exactly one put, whose
\* record is in the table; OPTIONS gets the empty success response without a
\* put.  There is no other response.
C8_ResponseAgreesWithStore ==
    invocations > 0 =>
        /\ putCalls \in {0, 1}
        /\ response.headers.origin = "*"
        /\ \/ response.statusCode = 200 /\ response.body = "" /\ Method(request) = M_OPTIONS
           \/ response.statusCode = 200 /\ response.body = SuccessBody
           \/ response.statusCode = 500 /\ response.body = ErrorBody
        /\ response.statusCode = 500 => putCalls = 0 /\ RecordsOf(request.n) = {}
        /\ (response.statusCode = 200 /\ Method(request) \in {M_GET, M_POST})
              => putCalls = 1 /\ Cardinality(RecordsOf(request.n)) = 1
        /\ Method(request) = M_OPTIONS
              => response.statusCode = 200 /\ response.body = "" /\ putCalls = 0
                 /\ RecordsOf(request.n) = {}

\* after a stored record, a request that the store refuses: the error
\* response, and only the earlier record in the table
C8_Witness ==
    /\ invocations = 2
    /\ response.statusCode = 500 /\ ~request.storeUp /\ Method(request) = M_POST
    /\ Cardinality(DOMAIN table) = 1 /\ RecordsOf(1) # {}

\* C9: a POST whose body is absent, is no valid JSON, or is a JSON object with
\* its optional fields missing never gets the error result: one record is
\* stored, with siteId, sessionId, visitorId and eventType 'unknown'.
C9_InputShapeNeverRaised ==
    (/\ invocations > 0 /\ Method(request) = M_POST /\ request.storeUp
     /\ Get(request.event, "body", None) \in {None, Str(<<"{">>), JsonText(EmptyDict)}) =>
        /\ response.statusCode = 200 /\ response.body = SuccessBody
        /\ \E k \in RecordsOf(request.n) :
              \A f \in {"siteId", "sessionId", "visitorId", "eventType"} :
                  table[k][f] = Str(<<"u", "n", "k", "n", "o", "w", "n">>)

\* the instants that the timestamp texts of the requests name
TimestampTexts ==
    { <<T_epoch, 0>>, <<T_hour1, 3600000>>, <<T_hour1_offset, 3600000>> }

\* C10: a single event whose timestamp is a text that parses as ISO-8601 is
\* stored under that instant in epoch-milliseconds; with a timestamp that is
\* absent, no text, or a text that does not parse, it is stored under the
\* processing time, with a success response.
C10_TimestampDerivation ==
    (/\ invocations > 0 /\ Method(request) = M_POST /\ request.storeUp
     /\ Get(request.event, "body", None).t = "json"
     /\ Get(request.event, "body", None).l[1].t = "dict"
     /\ Get(Get(request.event, "body", None).l[1], "eventType", None) # Str(S_batch)) =>
        LET event == Get(request.event, "body", None).l[1]
            given == Get(event, "timestamp", None)
        IN  /\ response.statusCode = 200
            /\ \E k \in RecordsOf(request.n) :
                  IF \E p \in TimestampTexts : p[1] = given
                  THEN \E p \in TimestampTexts : p[1] = given /\ k[2] = p[2]
                  ELSE k[2] = request.now

\* the dict literal that the normalizer of the last request has built
LastItemFields ==
    LET current_time == IsoFormat(request.now)
        payload == Payload(request.event, current_time)
    IN  IF Route(request.event) = "batch"
        THEN BatchItemFields(payload, ClientIp(request.event), UserAgent(request.event),
                             current_time, request.n, request.now)
        ELSE SingleItemFields(payload, ClientIp(request.event), UserAgent(request.event),
                              current_time, request.n, request.now)

\* the last request was answered with success and has stored a record
LastStored ==
    /\ invocations > 0 /\ response.statusCode = 200
    /\ Method(request) \in {M_GET, M_POST}
    /\ RecordsOf(request.n) # {}

LastRecord == table[CHOOSE k \in RecordsOf(request.n) : TRUE]

IsEmptyString(v) == v.t = "str" /\ v.s = <<>>
IsZero(v) == v.t \in {"num", "float", "bool"} /\ v.n = 0
IsEmptyList(v) == v.t = "list" /\ v.l = <<>>
IsEmptyMapping(v) == v.t = "dict" /\ DOMAIN v.d = {} /\ v.l = <<>>

ZeroStoredInBatch ==
    {"clickCount", "scrollEvents", "maxScrollDepth", "eventCount", "activityDuration",
     "engagementIntensity", "sentOnExit"}

\* C11: a single-event record has a top-level field exactly when the value of
\* the field is neither the empty string nor zero; a batch record has it
\* exactly when the value is not the empty string, the empty list or the empty
\* mapping: zero counts and sentOnExit = false are stored in a batch record,
\* eventTypes and scrollMilestones are left out for a batch without events.
C11_OmissionRule ==
    LastStored =>
      LET fields == LastItemFields
          record == LastRecord
      IN
        /\ Route(request.event) = "single" =>
              DOMAIN record =
                  {k \in DOMAIN fields :
                      ~IsEmptyString(fields[k]) /\ ~IsZero(fields[k])}
        /\ Route(request.event) = "batch" =>
              /\ DOMAIN record =
                    {k \in DOMAIN fields :
                        /\ ~IsEmptyString(fields[k])
                        /\ ~IsEmptyList(fields[k])
                        /\ ~IsEmptyMapping(fields[k])}
              /\ \A k \in ZeroStoredInBatch :
                    IsZero(fields[k]) => k \in DOMAIN record /\ IsZero(record[k])
              /\ Get(Payload(request.event, IsoFormat(request.now)), "events", List(<<>>)).l = <<>>
                    => "eventTypes" \notin DOMAIN record
                       /\ "scrollMilestones" \notin DOMAIN record

\* a batch without events, stored with its zero counts and sentOnExit = false
\* and without eventTypes, after a single event with an empty path, stored
\* without path, timeSpent and maxScrollPercentage and with its page title
C11_Witness ==
    /\ LastStored /\ Route(request.event) = "batch"
    /\ \A k \in ZeroStoredInBatch : k \in DOMAIN LastRecord /\ IsZero(LastRecord[k])
    /\ "eventTypes" \notin DOMAIN LastRecord
    /\ \E j \in RecordsOf(1) :
          /\ request.n = 2
          /\ table[j]["eventType"] = Str(S_pageview)
          /\ "pageTitle" \in DOMAIN table[j]
          /\ DOMAIN table[j] \cap {"path", "timeSpent", "maxScrollPercentage"} = {}

\* the parsed body of the last request, a POST that did not fail: the object
\* of the JSON text, the empty object for a text that is no JSON or a missing body
LastBody ==
    LET body == IF "body" \in DOMAIN request.event.d THEN request.event.d["body"]
                ELSE JsonText(EmptyDict)
    IN  IF body.t = "json" THEN body.l[1] ELSE EmptyDict

\* the query parameters of the last request, a GET
LastQuery ==
    LET q == Get(request.event, "queryStringParameters", None)
    IN  IF q = None THEN EmptyDict ELSE q

Unknown == Str(<<"u", "n", "k", "n", "o", "w", "n">>)
Batch == Str(<<"b", "a", "t", "c", "h">>)

\* the value of a field of a stored record, None for a field it does not have
Field(record, k) == IF k \in DOMAIN record THEN record[k] ELSE None

\* C12: a POST whose parsed body has eventType 'batch' goes to the batch
\* normalizer and stores one record for the whole envelope (eventType 'batch',
\* eventCount the number of sub-events, eventId = batchId); every other POST
\* and every GET goes to the single-event normalizer, a GET taking sessionId
\* from sid, visitorId from vid, eventType from type, with siteId 'unknown'.
C12_Routing ==
    LastStored =>
      LET record == LastRecord
          body == LastBody
          query == LastQuery
      IN
        /\ Cardinality(RecordsOf(request.n)) = 1
        /\ putCalls = 1
        /\ IF Method(request) = M_POST /\ Get(body, "eventType", Unknown) = Batch
           THEN /\ Field(record, "eventType") = Batch
                /\ Field(record, "eventCount") = Num(Len(Get(body, "events", List(<<>>)).l))
                /\ "batchId" \in DOMAIN record
                /\ Field(record, "eventId") = Field(record, "batchId")
           ELSE /\ DOMAIN record \cap {"batchId", "eventCount", "eventTypes", "clickCount"} = {}
                /\ Method(request) = M_POST =>
                      /\ Field(record, "eventType") = Get(body, "eventType", Unknown)
                      /\ Field(record, "eventType") # Batch
                /\ Method(request) = M_GET =>
                      /\ Field(record, "sessionId") = Get(query, "sid", Unknown)
                      /\ Field(record, "visitorId") = Get(query, "vid", Unknown)
                      /\ Field(record, "eventType") =
                            Get(query, "type", Str(<<"p", "a", "g", "e", "v", "i", "e", "w">>))
                      /\ Field(record, "siteId") = Unknown

\* a batch of six sub-events stored as one record, after a GET with
\* type=pageview&sid=s2&vid=v2 stored as a single event of site 'unknown'
C12_Witness ==
    /\ LastStored /\ request.n = 2 /\ Method(request) = M_POST
    /\ Len(Get(LastBody, "events", List(<<>>)).l) = 6
    /\ Field(LastRecord, "eventCount") = Num(6)
    /\ Cardinality(DOMAIN table) = 2
    /\ \E j \in RecordsOf(1) :
          /\ Field(table[j], "sessionId") = Str(<<"s", "2">>)
          /\ Field(table[j], "siteId") = Unknown
          /\ j[1] = <<"u", "n", "k", "n", "o", "w", "n", "#", "s", "2">>

\* the last request has reached table.put_item: a GET or POST whose normalizer
\* has built its item without raising
LastReachedPut ==
    /\ invocations > 0 /\ Method(request) \in {M_GET, M_POST}
    /\ ~NormalizerRaises(request.event, IsoFormat(request.now), request.now)

\* the item that the normalizer of the last request hands to table.put_item
LastItem == NormalizedItem(request.event, IsoFormat(request.now), request.n, request.now)

\* C13: every item handed to the store's put, by either normalizer and for
\* every input, has both key attributes: a non-empty domain_session equal to
\* '{siteId}#{sessionId}' and an integer timestamp; the omission of empty
\* values never removes a key attribute.
C13_KeyAttributesKept ==
    LastReachedPut =>
        /\ "domain_session" \in DOMAIN LastItem
        /\ LastItem["domain_session"].t = "str"
        /\ LastItem["domain_session"].s # <<>>
        /\ LastItem["domain_session"].s =
              FormatValue(LastItemFields["siteId"]) \o <<"#">>
                  \o FormatValue(LastItemFields["sessionId"])
        /\ "timestamp" \in DOMAIN LastItem
        /\ LastItem["timestamp"].t = "num"

====
